---- MODULE Spec2Model ----
(***************************************************************************)
(* Model of c_modules/c_algorithms.c: the hex-grid movement engine.        *)
(*   find_path       A* search between two tiles (c_find_path)             *)
(*   find_reachable  budgeted Dijkstra with the ZoC rule (c_find_reachable)*)
(* Costs are C doubles in the source; the model uses integers, with        *)
(* INFINITY a value above every cost a run can accumulate.                 *)
(***************************************************************************)
EXTENDS Integers, Sequences, FiniteSets, Bags, TLC

(* ------------------------------ bounds -------------------------------- *)
MaxWidth == 3
MaxHeight == 3
\* largest finite budget the caller passes
MaxBudget == 4
\* the cost the caller gives to rough terrain (terrain id 1)
RoughCost == 3
\* the largest capacity of a heap driven on its own, and the largest priority
MaxHeapCapacity == 4
MaxPriority == 2

(* ------------------------- program constants -------------------------- *)
INFINITY == 1000000
NUM_TERRAIN_IDS == 100

(* ---------------------------- returned objects ------------------------ *)
\* what a call hands back to Python: None, a list of (x, y), a dict (x, y) -> cost
PyNone == [type |-> "NoneType", value |-> <<>>]
PyList(seq) == [type |-> "list", value |-> seq]
PyDict(f) == [type |-> "dict", value |-> f]
\* NULL with an exception set: the call raised instead of returning an object
PyNull == [type |-> "NULL", value |-> <<>>]
\* the call read memory outside its buffers
Undefined == [type |-> "undefined", value |-> <<>>]

(* ------------------------------ C integers ---------------------------- *)
Abs(n) == IF n < 0 THEN -n ELSE n
\* C's / truncates toward zero, C's % takes the sign of the dividend
CDiv(a, b) == IF a >= 0 THEN a \div b ELSE -((-a) \div b)
CMod(a, b) == a - b * CDiv(a, b)
\* row & 1 on a two's complement int
BitAnd1(n) == n % 2

(* ------------------------------ Hex Utils ----------------------------- *)
offset_to_axial(col, row) ==
    [q |-> col - CDiv(row - BitAnd1(row), 2), r |-> row]

\* hex_distance three times too large: no longer a lower bound of the cost
hex_distance_tripled(a, b) ==
    3 * CDiv(Abs(a.q - b.q) + Abs(a.q + a.r - b.q - b.r) + Abs(a.r - b.r), 2)

hex_distance(a, b) ==
    CDiv(Abs(a.q - b.q) + Abs(a.q + a.r - b.q - b.r) + Abs(a.r - b.r), 2)

even_row_dirs == << <<-1, -1>>, <<0, -1>>, <<1, 0>>, <<0, 1>>, <<-1, 1>>, <<-1, 0>> >>
odd_row_dirs  == << <<0, -1>>, <<1, -1>>, <<1, 0>>, <<1, 1>>, <<0, 1>>, <<-1, 0>> >>
\* (cy % 2 == 0) ? even_row_dirs : odd_row_dirs
\* dirs with the two tables taken for the wrong row parity
dirs_parity_swapped(cy) == IF CMod(cy, 2) = 0 THEN odd_row_dirs ELSE even_row_dirs

dirs(cy) == IF CMod(cy, 2) = 0 THEN even_row_dirs ELSE odd_row_dirs

(* ---------------------------- Priority Queue -------------------------- *)
\* A heap is [nodes |-> sequence of Node, capacity |-> int]; size is
\* Len(nodes) and C's nodes[i] is nodes[i + 1].
Node(x, y, priority) == [x |-> x, y |-> y, priority |-> priority]

\* create_heap with room for all tiles but one
create_heap_one_short(capacity) == [nodes |-> <<>>, capacity |-> capacity - 1]
create_heap(capacity) == [nodes |-> <<>>, capacity |-> capacity]

Swap(nodes, i, j) == [nodes EXCEPT ![i + 1] = nodes[j + 1], ![j + 1] = nodes[i + 1]]

RECURSIVE SiftUp(_, _)
SiftUp(nodes, i) ==
    IF i > 0
    THEN LET parent == (i - 1) \div 2
         IN IF nodes[i + 1].priority < nodes[parent + 1].priority
            THEN SiftUp(Swap(nodes, i, parent), parent)
            ELSE nodes
    ELSE nodes

heap_push(heap, x, y, priority) ==
    IF Len(heap.nodes) >= heap.capacity
    THEN heap
    ELSE [heap EXCEPT !.nodes =
            SiftUp(Append(heap.nodes, Node(x, y, priority)), Len(heap.nodes))]

\* SiftDown that looks at the left child alone
RECURSIVE SiftDown_left_only(_, _)
SiftDown_left_only(nodes, i) ==
    LET size == Len(nodes)
        left == 2 * i + 1
        smallest == IF left < size /\ nodes[left + 1].priority < nodes[i + 1].priority
                    THEN left ELSE i
    IN IF smallest # i
       THEN SiftDown_left_only(Swap(nodes, i, smallest), smallest)
       ELSE nodes

RECURSIVE SiftDown(_, _)
SiftDown(nodes, i) ==
    LET size == Len(nodes)
        left == 2 * i + 1
        right == 2 * i + 2
        s1 == IF left < size /\ nodes[left + 1].priority < nodes[i + 1].priority
              THEN left ELSE i
        smallest == IF right < size /\ nodes[right + 1].priority < nodes[s1 + 1].priority
                    THEN right ELSE s1
    IN IF smallest # i
       THEN SiftDown(Swap(nodes, i, smallest), smallest)
       ELSE nodes

\* heap_pop that returns the root and leaves it in the heap
heap_pop_keeps_root(heap) ==
    IF Len(heap.nodes) = 0
    THEN [root |-> Node(-1, -1, -1), heap |-> heap]
    ELSE [root |-> heap.nodes[1], heap |-> heap]

\* heap_pop returns the root and leaves the heap without it
heap_pop(heap) ==
    IF Len(heap.nodes) = 0
    THEN [root |-> Node(-1, -1, -1), heap |-> heap]
    ELSE LET size == Len(heap.nodes) - 1
             moved == IF size = 0 THEN <<>>
                      ELSE [SubSeq(heap.nodes, 1, size) EXCEPT ![1] = heap.nodes[size + 1]]
         IN [root |-> heap.nodes[1],
             heap |-> [heap EXCEPT !.nodes = IF size = 0 THEN <<>> ELSE SiftDown(moved, 0)]]

(* ----------------------------- Common Parser -------------------------- *)
\* An argument record a has the fields of the Python call:
\*   width, height, terrain_type (the Python type of the terrain object),
\*   terrain_grid (its items: 0..n-1 -> terrain id),
\*   cost_map (terrain id -> cost), start_x, start_y, end_x, end_y,
\*   blockers (set of <<x, y>>), max_cost, zoc_map (set of indices marked true)
map_size(a) == a.width * a.height

PySequence_Check(a) == a.terrain_type = "list"
\* PySequence_GetItem(terrain_grid_obj, i) returns an item
PySequence_GetItem(a, i) == i \in DOMAIN a.terrain_grid

\* the return value: 0 when the terrain object is not a sequence or yields
\* fewer than map_size items, 1 otherwise
parse_common_args(a) ==
    IF PySequence_Check(a) /\ \A i \in 0..(map_size(a) - 1) : PySequence_GetItem(a, i)
    THEN 1 ELSE 0

\* costs_out: 1.0 everywhere, then the overrides whose key is in 0..99
costs(a) ==
    [id \in 0..(NUM_TERRAIN_IDS - 1) |->
        IF id \in DOMAIN a.cost_map THEN a.cost_map[id] ELSE 1]

\* blocked[by * width + bx] = 1 for the blockers inside the grid
blocked(a) ==
    [i \in 0..(map_size(a) - 1) |->
        IF <<i % a.width, i \div a.width>> \in a.blockers THEN 1 ELSE 0]

\* move_cost without the clamp to 1.0
move_cost_unclamped(a, n_idx) ==
    LET terrain_id == a.terrain_grid[n_idx]
    IN IF terrain_id >= 0 /\ terrain_id < NUM_TERRAIN_IDS
       THEN costs(a)[terrain_id] ELSE 1

\* the terrain lookup, the clamp to 1.0 and nothing else: the caller tests isinf
move_cost(a, n_idx) ==
    LET terrain_id == a.terrain_grid[n_idx]
        looked == IF terrain_id >= 0 /\ terrain_id < NUM_TERRAIN_IDS
                  THEN costs(a)[terrain_id] ELSE 1
    IN IF looked < 1 THEN 1 ELSE looked

isinf(c) == c >= INFINITY

(* --------------------------- the buffers of a call -------------------- *)
\* The memory a call takes from malloc and calloc. The heap is two blocks:
\* the MinHeap and its node array.
Buffers == {"grid", "blocked", "g_scores", "min_costs", "parents",
            "in_closed_set", "zoc_map", "heap", "heap_nodes"}
\* per buffer, how often it was acquired and how often it was passed to free
NoBuffers == [b \in Buffers |-> [acquired |-> 0, released |-> 0]]
Count(names, b) == Cardinality({i \in 1..Len(names) : names[i] = b})
Acquire(bufs, names) ==
    [b \in Buffers |-> [bufs[b] EXCEPT !.acquired = @ + Count(names, b)]]
Release(bufs, names) ==
    [b \in Buffers |-> [bufs[b] EXCEPT !.released = @ + Count(names, b)]]

\* parse_common_args: grid always, blocked once the terrain is read
parse_mallocs(a) ==
    IF parse_common_args(a) = 1 THEN <<"grid", "blocked">> ELSE <<"grid">>
\* parse_common_args freeing nothing when it fails
parse_frees_nothing(a) == <<>>
\* parse_common_args: free(grid) on both failure returns
parse_frees(a) ==
    IF parse_common_args(a) = 1 THEN <<>> ELSE <<"grid">>

create_heap_mallocs == <<"heap", "heap_nodes">>
destroy_heap_frees == <<"heap_nodes", "heap">>

(* ------------------------- bookkeeping of a run ----------------------- *)
\* What a run did, kept beside the locals (the program stores none of it):
\*   expansions[i]  how often the neighbour loop ran for tile index i
\*   pushes[i]      how often heap_push was called for tile index i
\*   dropped        how many of these calls found the heap at capacity
\*   stale          how many popped entries the loop discarded
NoStats(a) ==
    [expansions |-> [i \in 0..(map_size(a) - 1) |-> 0],
     pushes |-> [i \in 0..(map_size(a) - 1) |-> 0],
     dropped |-> 0, stale |-> 0]

\* heap_push is called for tile index idx on the heap
Pushed(st, heap, idx) ==
    [st EXCEPT !.pushes[idx] = @ + 1,
               !.dropped = IF Len(heap.nodes) >= heap.capacity THEN @ + 1 ELSE @]

Expanded(st, idx) == [st EXCEPT !.expansions[idx] = @ + 1]
Discarded(st) == [st EXCEPT !.stale = @ + 1]

(* -------------------------------- A* Search --------------------------- *)
\* A search state s is [g_scores, parents, in_closed_set, open_set, found].
start_idx(a) == a.start_y * a.width + a.start_x
end_idx(a) == a.end_y * a.width + a.end_x

\* what c_find_path acquires after the parser: the three arrays, and the heap
\* inside the test of the start index
path_mallocs(a) ==
    <<"g_scores", "parents", "in_closed_set">>
        \o (IF start_idx(a) >= 0 /\ start_idx(a) < map_size(a)
            THEN create_heap_mallocs ELSE <<>>)
\* what it releases: the heap where the loop ends, the arrays before the return
path_frees(a) ==
    (IF start_idx(a) >= 0 /\ start_idx(a) < map_size(a)
     THEN destroy_heap_frees ELSE <<>>)
        \o <<"grid", "blocked", "g_scores", "parents", "in_closed_set">>

path_begin(a) ==
    LET base == [g_scores |-> [i \in 0..(map_size(a) - 1) |-> INFINITY],
                 parents |-> [i \in 0..(map_size(a) - 1) |-> -1],
                 in_closed_set |-> [i \in 0..(map_size(a) - 1) |-> 0],
                 open_set |-> create_heap(0),
                 found |-> 0,
                 stats |-> NoStats(a)]
    IN IF start_idx(a) >= 0 /\ start_idx(a) < map_size(a)
       THEN [base EXCEPT
               !.g_scores[start_idx(a)] = 0,
               !.stats = Pushed(@, create_heap(map_size(a)), start_idx(a)),
               !.open_set = heap_push(create_heap(map_size(a)), a.start_x, a.start_y,
                               hex_distance(offset_to_axial(a.start_x, a.start_y),
                                            offset_to_axial(a.end_x, a.end_y)))]
       ELSE base

\* path_skip without the test of the blocked mask
path_skip_ignores_blocked(a, s, c_idx, nx, ny) ==
    LET n_idx == ny * a.width + nx
        tentative_g == s.g_scores[c_idx] + move_cost(a, n_idx)
    IN \/ nx < 0 \/ nx >= a.width \/ ny < 0 \/ ny >= a.height
       \/ s.in_closed_set[n_idx] = 1
       \/ isinf(move_cost(a, n_idx))
       \/ (a.max_cost >= 0 /\ tentative_g > a.max_cost)
       \/ ~(tentative_g < s.g_scores[n_idx])

\* path_skip with the budget test >= instead of >
path_skip_budget_strict(a, s, c_idx, nx, ny) ==
    LET n_idx == ny * a.width + nx
        tentative_g == s.g_scores[c_idx] + move_cost(a, n_idx)
    IN \/ nx < 0 \/ nx >= a.width \/ ny < 0 \/ ny >= a.height
       \/ s.in_closed_set[n_idx] = 1
       \/ blocked(a)[n_idx] = 1
       \/ isinf(move_cost(a, n_idx))
       \/ (a.max_cost >= 0 /\ tentative_g >= a.max_cost)
       \/ ~(tentative_g < s.g_scores[n_idx])

\* the continue statements of the neighbour loop, and the failed improvement test
path_skip(a, s, c_idx, nx, ny) ==
    LET n_idx == ny * a.width + nx
        tentative_g == s.g_scores[c_idx] + move_cost(a, n_idx)
    IN \/ nx < 0 \/ nx >= a.width \/ ny < 0 \/ ny >= a.height
       \/ s.in_closed_set[n_idx] = 1
       \/ blocked(a)[n_idx] = 1
       \/ isinf(move_cost(a, n_idx))
       \/ (a.max_cost >= 0 /\ tentative_g > a.max_cost)
       \/ ~(tentative_g < s.g_scores[n_idx])

\* the body of the for loop over the six directions, from direction i on
RECURSIVE path_neighbors(_, _, _, _, _)
path_neighbors(a, s, cx, cy, i) ==
    IF i >= 6 THEN s
    ELSE LET c_idx == cy * a.width + cx
             nx == cx + dirs(cy)[i + 1][1]
             ny == cy + dirs(cy)[i + 1][2]
             n_idx == ny * a.width + nx
             tentative_g == s.g_scores[c_idx] + move_cost(a, n_idx)
             f_score == tentative_g
                        + hex_distance(offset_to_axial(nx, ny),
                                       offset_to_axial(a.end_x, a.end_y))
         IN IF path_skip(a, s, c_idx, nx, ny)
            THEN path_neighbors(a, s, cx, cy, i + 1)
            ELSE path_neighbors(a,
                    [s EXCEPT !.parents[n_idx] = c_idx,
                              !.g_scores[n_idx] = tentative_g,
                              !.open_set = heap_push(s.open_set, nx, ny, f_score),
                              !.stats = Pushed(@, s.open_set, n_idx)],
                    cx, cy, i + 1)

\* path_iteration without the closed test at pop
path_iteration_no_closed_test(a, s) ==
    LET popped == heap_pop(s.open_set)
        cx == popped.root.x
        cy == popped.root.y
        c_idx == cy * a.width + cx
        s1 == [s EXCEPT !.open_set = popped.heap]
    IN IF cx = a.end_x /\ cy = a.end_y
       THEN [s1 EXCEPT !.found = 1]
       ELSE path_neighbors(a, [s1 EXCEPT !.in_closed_set[c_idx] = 1,
                                         !.stats = Expanded(@, c_idx)], cx, cy, 0)

\* one iteration of while (open_set->size > 0)
path_iteration(a, s) ==
    LET popped == heap_pop(s.open_set)
        cx == popped.root.x
        cy == popped.root.y
        c_idx == cy * a.width + cx
        s1 == [s EXCEPT !.open_set = popped.heap]
    IN IF cx = a.end_x /\ cy = a.end_y
       THEN [s1 EXCEPT !.found = 1]
       ELSE IF s1.in_closed_set[c_idx] = 1
       THEN [s1 EXCEPT !.stats = Discarded(@)]
       ELSE path_neighbors(a, [s1 EXCEPT !.in_closed_set[c_idx] = 1,
                                         !.stats = Expanded(@, c_idx)], cx, cy, 0)

\* path_walk_back appending each coordinate instead of inserting it in front
RECURSIVE path_walk_back_unreversed(_, _, _, _)
path_walk_back_unreversed(a, s, curr, acc) ==
    IF curr = start_idx(a) THEN PyList(acc)
    ELSE IF curr < 0 \/ curr >= map_size(a) \/ Len(acc) > map_size(a) THEN Undefined
    ELSE path_walk_back_unreversed(a, s, s.parents[curr],
                        Append(acc, <<curr % a.width, curr \div a.width>>))

\* while (curr != start_idx): the coordinates from goal back to start, reversed.
\* A predecessor of -1 would make the source read parents[-1].
RECURSIVE path_walk_back(_, _, _, _)
path_walk_back(a, s, curr, acc) ==
    IF curr = start_idx(a) THEN PyList(acc)
    ELSE IF curr < 0 \/ curr >= map_size(a) \/ Len(acc) > map_size(a) THEN Undefined
    ELSE path_walk_back(a, s, s.parents[curr],
                        << <<curr % a.width, curr \div a.width>> >> \o acc)

\* path_result taking the empty path for 'no path'
path_result_empty_is_none(a, s) ==
    IF s.found = 1 /\ end_idx(a) # start_idx(a)
    THEN path_walk_back(a, s, end_idx(a), <<>>) ELSE PyNone

path_result(a, s) ==
    IF s.found = 1 THEN path_walk_back(a, s, end_idx(a), <<>>) ELSE PyNone

RECURSIVE path_loop(_, _)
path_loop(a, s) ==
    IF Len(s.open_set.nodes) > 0 /\ s.found = 0
    THEN path_loop(a, path_iteration(a, s))
    ELSE s

\* the whole call: what c_find_path returns for the arguments a
c_find_path(a) == path_result(a, path_loop(a, path_begin(a)))

(* ------------------- Dijkstra Search (Find All Reachable) ------------- *)
\* A search state s is [min_costs, in_closed_set, queue].
zoc_map(a) == [i \in 0..(map_size(a) - 1) |-> IF i \in a.zoc_map THEN 1 ELSE 0]

\* what c_find_reachable acquires after the parser
reach_mallocs(a) ==
    <<"zoc_map", "min_costs", "in_closed_set">>
        \o (IF start_idx(a) >= 0 /\ start_idx(a) < map_size(a)
            THEN create_heap_mallocs ELSE <<>>)
\* what it releases
reach_frees(a) ==
    (IF start_idx(a) >= 0 /\ start_idx(a) < map_size(a)
     THEN destroy_heap_frees ELSE <<>>)
        \o <<"grid", "blocked", "min_costs", "in_closed_set", "zoc_map">>

\* reach_begin refusing a blocked start tile
reach_begin_checks_start(a) ==
    LET base == [min_costs |-> [i \in 0..(map_size(a) - 1) |-> INFINITY],
                 in_closed_set |-> [i \in 0..(map_size(a) - 1) |-> 0],
                 queue |-> create_heap(0),
                 stats |-> NoStats(a)]
    IN IF start_idx(a) >= 0 /\ start_idx(a) < map_size(a)
          /\ blocked(a)[start_idx(a)] = 0
       THEN [base EXCEPT
               !.min_costs[start_idx(a)] = 0,
               !.stats = Pushed(@, create_heap(map_size(a)), start_idx(a)),
               !.queue = heap_push(create_heap(map_size(a)), a.start_x, a.start_y, 0)]
       ELSE base

reach_begin(a) ==
    LET base == [min_costs |-> [i \in 0..(map_size(a) - 1) |-> INFINITY],
                 in_closed_set |-> [i \in 0..(map_size(a) - 1) |-> 0],
                 queue |-> create_heap(0),
                 stats |-> NoStats(a)]
    IN IF start_idx(a) >= 0 /\ start_idx(a) < map_size(a)
       THEN [base EXCEPT
               !.min_costs[start_idx(a)] = 0,
               !.stats = Pushed(@, create_heap(map_size(a)), start_idx(a)),
               !.queue = heap_push(create_heap(map_size(a)), a.start_x, a.start_y, 0)]
       ELSE base

\* reach_skip without the test of the blocked mask
reach_skip_ignores_blocked(a, s, c_idx, nx, ny) ==
    LET n_idx == ny * a.width + nx
        c_in_zoc == zoc_map(a)[c_idx]
        n_in_zoc == zoc_map(a)[n_idx]
        new_cost == s.min_costs[c_idx] + move_cost(a, n_idx)
    IN \/ nx < 0 \/ nx >= a.width \/ ny < 0 \/ ny >= a.height
       \/ s.in_closed_set[n_idx] = 1
       \/ (c_in_zoc = 1 /\ n_in_zoc = 0)
       \/ isinf(move_cost(a, n_idx))
       \/ new_cost > a.max_cost
       \/ ~(new_cost < s.min_costs[n_idx])

\* reach_skip with the ZoC rule the other way round: entering ZoC is forbidden
reach_skip_zoc_enter(a, s, c_idx, nx, ny) ==
    LET n_idx == ny * a.width + nx
        c_in_zoc == zoc_map(a)[c_idx]
        n_in_zoc == zoc_map(a)[n_idx]
        new_cost == s.min_costs[c_idx] + move_cost(a, n_idx)
    IN \/ nx < 0 \/ nx >= a.width \/ ny < 0 \/ ny >= a.height
       \/ s.in_closed_set[n_idx] = 1
       \/ blocked(a)[n_idx] = 1
       \/ (c_in_zoc = 0 /\ n_in_zoc = 1)
       \/ isinf(move_cost(a, n_idx))
       \/ new_cost > a.max_cost
       \/ ~(new_cost < s.min_costs[n_idx])

\* reach_skip without the ZoC rule
reach_skip_no_zoc(a, s, c_idx, nx, ny) ==
    LET n_idx == ny * a.width + nx
        new_cost == s.min_costs[c_idx] + move_cost(a, n_idx)
    IN \/ nx < 0 \/ nx >= a.width \/ ny < 0 \/ ny >= a.height
       \/ s.in_closed_set[n_idx] = 1
       \/ blocked(a)[n_idx] = 1
       \/ isinf(move_cost(a, n_idx))
       \/ new_cost > a.max_cost
       \/ ~(new_cost < s.min_costs[n_idx])

\* reach_skip stopping at every ZoC tile: no move out of a ZoC tile at all
reach_skip_zoc_stop(a, s, c_idx, nx, ny) ==
    LET n_idx == ny * a.width + nx
        c_in_zoc == zoc_map(a)[c_idx]
        new_cost == s.min_costs[c_idx] + move_cost(a, n_idx)
    IN \/ nx < 0 \/ nx >= a.width \/ ny < 0 \/ ny >= a.height
       \/ s.in_closed_set[n_idx] = 1
       \/ blocked(a)[n_idx] = 1
       \/ c_in_zoc = 1
       \/ isinf(move_cost(a, n_idx))
       \/ new_cost > a.max_cost
       \/ ~(new_cost < s.min_costs[n_idx])

\* reach_skip with the budget test >= instead of >
reach_skip_budget_strict(a, s, c_idx, nx, ny) ==
    LET n_idx == ny * a.width + nx
        c_in_zoc == zoc_map(a)[c_idx]
        n_in_zoc == zoc_map(a)[n_idx]
        new_cost == s.min_costs[c_idx] + move_cost(a, n_idx)
    IN \/ nx < 0 \/ nx >= a.width \/ ny < 0 \/ ny >= a.height
       \/ s.in_closed_set[n_idx] = 1
       \/ blocked(a)[n_idx] = 1
       \/ (c_in_zoc = 1 /\ n_in_zoc = 0)
       \/ isinf(move_cost(a, n_idx))
       \/ new_cost >= a.max_cost
       \/ ~(new_cost < s.min_costs[n_idx])

\* reach_skip pushing a tile again at an equal cost
reach_skip_pushes_ties(a, s, c_idx, nx, ny) ==
    LET n_idx == ny * a.width + nx
        c_in_zoc == zoc_map(a)[c_idx]
        n_in_zoc == zoc_map(a)[n_idx]
        new_cost == s.min_costs[c_idx] + move_cost(a, n_idx)
    IN \/ nx < 0 \/ nx >= a.width \/ ny < 0 \/ ny >= a.height
       \/ s.in_closed_set[n_idx] = 1
       \/ blocked(a)[n_idx] = 1
       \/ (c_in_zoc = 1 /\ n_in_zoc = 0)
       \/ isinf(move_cost(a, n_idx))
       \/ new_cost > a.max_cost
       \/ ~(new_cost <= s.min_costs[n_idx])

\* the continue statements of the neighbour loop, and the failed improvement test
reach_skip(a, s, c_idx, nx, ny) ==
    LET n_idx == ny * a.width + nx
        c_in_zoc == zoc_map(a)[c_idx]
        n_in_zoc == zoc_map(a)[n_idx]
        new_cost == s.min_costs[c_idx] + move_cost(a, n_idx)
    IN \/ nx < 0 \/ nx >= a.width \/ ny < 0 \/ ny >= a.height
       \/ s.in_closed_set[n_idx] = 1
       \/ blocked(a)[n_idx] = 1
       \/ (c_in_zoc = 1 /\ n_in_zoc = 0)
       \/ isinf(move_cost(a, n_idx))
       \/ new_cost > a.max_cost
       \/ ~(new_cost < s.min_costs[n_idx])

RECURSIVE reach_neighbors(_, _, _, _, _)
reach_neighbors(a, s, cx, cy, i) ==
    IF i >= 6 THEN s
    ELSE LET c_idx == cy * a.width + cx
             nx == cx + dirs(cy)[i + 1][1]
             ny == cy + dirs(cy)[i + 1][2]
             n_idx == ny * a.width + nx
             new_cost == s.min_costs[c_idx] + move_cost(a, n_idx)
         IN IF reach_skip(a, s, c_idx, nx, ny)
            THEN reach_neighbors(a, s, cx, cy, i + 1)
            ELSE reach_neighbors(a,
                    [s EXCEPT !.min_costs[n_idx] = new_cost,
                              !.queue = heap_push(s.queue, nx, ny, new_cost),
                              !.stats = Pushed(@, s.queue, n_idx)],
                    cx, cy, i + 1)

\* one iteration of while (queue->size > 0)
reach_iteration(a, s) ==
    LET popped == heap_pop(s.queue)
        cx == popped.root.x
        cy == popped.root.y
        c_idx == cy * a.width + cx
        s1 == [s EXCEPT !.queue = popped.heap]
    IN IF popped.root.priority > s1.min_costs[c_idx]
       THEN [s1 EXCEPT !.stats = Discarded(@)]
       ELSE IF s1.in_closed_set[c_idx] = 1
       THEN [s1 EXCEPT !.stats = Discarded(@)]
       ELSE reach_neighbors(a, [s1 EXCEPT !.in_closed_set[c_idx] = 1,
                                          !.stats = Expanded(@, c_idx)], cx, cy, 0)

\* the result dictionary: (x, y) -> min_costs[idx] for min_costs[idx] <= max_cost
reach_result(a, s) ==
    LET keys == {i \in 0..(map_size(a) - 1) : s.min_costs[i] <= a.max_cost}
    IN PyDict([p \in {<<i % a.width, i \div a.width>> : i \in keys} |->
                  s.min_costs[p[2] * a.width + p[1]]])

RECURSIVE reach_loop(_, _)
reach_loop(a, s) ==
    IF Len(s.queue.nodes) > 0
    THEN reach_loop(a, reach_iteration(a, s))
    ELSE s

\* the whole call: what c_find_reachable returns for the arguments a
c_find_reachable(a) == reach_result(a, reach_loop(a, reach_begin(a)))

(* ------------------------------ the calls ------------------------------ *)
VARIABLES
    fn,             \* which entry point the caller invokes
    args,           \* its arguments
    pc,             \* "call", "path_loop", "reach_loop", "done", "error"
    g_scores, parents, open_set, found,     \* locals of c_find_path
    min_costs, queue,                       \* locals of c_find_reachable
    in_closed_set,                          \* local of both
    stats,          \* the bookkeeping of the run
    buffers,        \* the buffers the call acquired and released
    result,         \* the returned object
    heap,           \* a MinHeap driven by heap_push and heap_pop calls alone
    heap_log        \* what these calls pushed, popped and dropped

vars == <<fn, args, pc, g_scores, parents, open_set, found,
          min_costs, queue, in_closed_set, stats, buffers, result, heap, heap_log>>

\* the locals of c_find_path as one search state
PathState == [g_scores |-> g_scores, parents |-> parents,
              in_closed_set |-> in_closed_set, open_set |-> open_set, found |-> found,
              stats |-> stats]
\* the locals of c_find_reachable as one search state
ReachState == [min_costs |-> min_costs, in_closed_set |-> in_closed_set, queue |-> queue,
               stats |-> stats]

(* ------------------------------ the inputs ----------------------------- *)
Tiles(w, h) == 0..(w * h - 1)
Coord(w, i) == <<i % w, i \div w>>
Index(w, p) == p[2] * w + p[1]
InGrid(w, h, p) == p[1] >= 0 /\ p[1] < w /\ p[2] >= 0 /\ p[2] < h
AllCoords(w, h) == (0..(w - 1)) \X (0..(h - 1))
\* the coordinates one step outside the grid on every side
Border(w, h) == ((-1..w) \X (-1..h)) \ AllCoords(w, h)
\* the in-grid tiles next to p, as indices
Around(w, h, p) ==
    {Index(w, <<p[1] + d[1], p[2] + d[2]>>) :
        d \in {dirs(p[2])[k] : k \in 1..6}} \cap
    {i \in Tiles(w, h) : \E k \in 1..6 :
        Coord(w, i) = <<p[1] + dirs(p[2])[k][1], p[2] + dirs(p[2])[k][2]>>}

GridSizes == {<<MaxWidth, MaxHeight>>, <<MaxWidth, MaxHeight - 1>>}
\* the grids of one to four tiles
TinyGrids == {<<1, 1>>, <<1, 2>>, <<2, 1>>, <<2, 2>>}

\* A map marks some tiles: "rough" (terrain 1, cost RoughCost), "lava"
\* (terrain 2, cost infinity), "blocker" (in the blocked list), "zoc" (true
\* in the ZoC overlay) or "open" (false in the overlay); every other tile is
\* terrain 0 at cost 1, unblocked, and in the overlay as the base overlay says.
NoMark == <<>>
OneMark(w, h, kinds) == {i :> k : i \in Tiles(w, h), k \in kinds}
TwoMarks(w, h, kinds) ==
    {(i :> k) @@ (j :> l) : i \in Tiles(w, h), j \in Tiles(w, h), k \in kinds, l \in kinds}
UpToOneMark(w, h, kinds) == {NoMark} \cup OneMark(w, h, kinds)

CostMap == (1 :> RoughCost) @@ (2 :> INFINITY)

MakeArgs(sz, m, overlay, s, e, budget) ==
    [width |-> sz[1], height |-> sz[2],
     terrain_type |-> "list",
     terrain_grid |-> [i \in Tiles(sz[1], sz[2]) |->
                          IF i \in DOMAIN m /\ m[i] = "rough" THEN 1
                          ELSE IF i \in DOMAIN m /\ m[i] = "lava" THEN 2
                          ELSE 0],
     cost_map |-> CostMap,
     start_x |-> s[1], start_y |-> s[2], end_x |-> e[1], end_y |-> e[2],
     blockers |-> {Coord(sz[1], i) : i \in {j \in DOMAIN m : m[j] = "blocker"}},
     max_cost |-> budget,
     zoc_map |-> (overlay \cup {j \in DOMAIN m : m[j] = "zoc"})
                     \ {j \in DOMAIN m : m[j] = "open"}]

\* a budget no simple path of the largest map can exceed
BigBudget == MaxWidth * MaxHeight * RoughCost

\* opposite corners of the grid, along both diagonals
CornerPairs(w, h) == {<<<<0, 0>>, <<w - 1, h - 1>>>>, <<<<w - 1, 0>>, <<0, h - 1>>>>}

\* Examples 1 and 2 of the specification: 3x3, uniform cost 1, (0,0) to (2,2)
Example1 == MakeArgs(<<3, 3>>, NoMark, {}, <<0, 0>>, <<2, 2>>, -1)
Example2 == MakeArgs(<<3, 3>>, 4 :> "blocker", {}, <<0, 0>>, <<2, 2>>, -1)

\* the grid of the specification's examples, searched more densely
SpecGrid == <<3, 3>>
Corners(w, h) == {<<0, 0>>, <<w - 1, 0>>, <<0, h - 1>>, <<w - 1, h - 1>>}

\* a uniform single-terrain map: every tile has terrain id t, and the cost
\* table overrides the cost of t alone, with c
UniformArgs(sz, t, c, m, s, e, budget) ==
    [MakeArgs(sz, m, {}, s, e, budget) EXCEPT
        !.terrain_grid = [i \in Tiles(sz[1], sz[2]) |-> t],
        !.cost_map = (t :> c)]

\* terrain ids at both ends of the supported range 0..99 and inside it
UniformIds == {0, 1, NUM_TERRAIN_IDS - 1}
\* cost overrides below, at and above the clamp
UniformCosts == {-MaxBudget, -1, 0, 1, 2}

\* a with a terrain sequence of n items
ShortTerrain(a, n) == [a EXCEPT !.terrain_grid = [i \in 0..(n - 1) |-> 0]]
\* a with None as the terrain object
NoTerrain(a) == [ShortTerrain(a, 0) EXCEPT !.terrain_type = "NoneType"]
\* the terrain objects parse_common_args refuses
BadTerrain(a) ==
    {NoTerrain(a)} \cup {ShortTerrain(a, n) : n \in 0..(map_size(a) - 1)}

\* the arguments of a find_path call
PathInputs(a) ==
    \/ a \in {Example1, Example2}
    \* on the grids of one to four tiles: every start and goal
    \/ \E sz \in TinyGrids :
          \E m \in UpToOneMark(sz[1], sz[2], {"rough", "lava", "blocker"}),
             s \in AllCoords(sz[1], sz[2]), e \in AllCoords(sz[1], sz[2]),
             b \in {-1, MaxBudget} :
                a = MakeArgs(sz, m, {}, s, e, b)
    \* on the 3x3 grid: every start and goal, at most one marked tile
    \/ \E m \in UpToOneMark(SpecGrid[1], SpecGrid[2], {"rough", "blocker"}),
          s \in AllCoords(SpecGrid[1], SpecGrid[2]),
          e \in AllCoords(SpecGrid[1], SpecGrid[2]), b \in {-1, 0, MaxBudget} :
            a = MakeArgs(SpecGrid, m, {}, s, e, b)
    \/ \E sz \in GridSizes :
        \* every start and goal on the unmarked map
        \/ \E s \in AllCoords(sz[1], sz[2]), e \in AllCoords(sz[1], sz[2]),
              b \in {-1, 0, MaxBudget} :
                a = MakeArgs(sz, NoMark, {}, s, e, b)
        \* every start, to a corner of the last row, on maps with one marked tile
        \/ \E m \in OneMark(sz[1], sz[2], {"rough", "lava", "blocker"}),
              s \in AllCoords(sz[1], sz[2]), se \in CornerPairs(sz[1], sz[2]),
              b \in {-1, MaxBudget} :
                a = MakeArgs(sz, m, {}, s, se[2], b)
        \* corner to corner on maps with two marked tiles
        \/ \E m \in TwoMarks(sz[1], sz[2], {"rough", "blocker"}),
              se \in CornerPairs(sz[1], sz[2]), b \in {-1, MaxBudget} :
                a = MakeArgs(sz, m, {}, se[1], se[2], b)
        \* a start one step outside the grid
        \/ \E m \in UpToOneMark(sz[1], sz[2], {"blocker"}),
              s \in Border(sz[1], sz[2]), e \in Corners(sz[1], sz[2]) :
                a = MakeArgs(sz, m, {}, s, e, -1)
        \* corner to corner on uniform single-terrain maps, with at most one
        \* blocked tile, next to the start
        \/ \E t \in UniformIds, c \in UniformCosts,
              se \in CornerPairs(sz[1], sz[2]), b \in {-1, MaxBudget} :
                \E m \in {NoMark} \cup
                          {i :> "blocker" : i \in Around(sz[1], sz[2], se[1])} :
                    a = UniformArgs(sz, t, c, m, se[1], se[2], b)
        \* corner to corner with a terrain object the parser refuses
        \/ \E se \in CornerPairs(sz[1], sz[2]) :
                a \in BadTerrain(MakeArgs(sz, NoMark, {}, se[1], se[2], -1))

\* the arguments of a find_reachable call
ReachInputs(a) ==
    \* on the grids of one to four tiles: every start
    \/ \E sz \in TinyGrids :
          \E m \in UpToOneMark(sz[1], sz[2], {"rough", "lava", "blocker", "zoc"}),
             s \in AllCoords(sz[1], sz[2]), b \in {0, MaxBudget, BigBudget} :
                a = MakeArgs(sz, m, {}, s, <<0, 0>>, b)
    \* on the 3x3 grid: every start, at most two marked tiles
    \/ \E m \in UpToOneMark(SpecGrid[1], SpecGrid[2], {"rough", "lava", "blocker", "zoc"}),
          s \in AllCoords(SpecGrid[1], SpecGrid[2]), b \in {0, 1, MaxBudget, BigBudget} :
            a = MakeArgs(SpecGrid, m, {}, s, <<0, 0>>, b)
    \/ \E m \in TwoMarks(SpecGrid[1], SpecGrid[2], {"rough", "blocker", "zoc"}),
          s \in AllCoords(SpecGrid[1], SpecGrid[2]) :
            a = MakeArgs(SpecGrid, m, {}, s, <<0, 0>>, BigBudget)
    \/ \E sz \in GridSizes :
        \* every start on maps with at most one marked tile
        \/ \E m \in UpToOneMark(sz[1], sz[2], {"rough", "lava", "blocker", "zoc"}),
              s \in AllCoords(sz[1], sz[2]), b \in {MaxBudget, BigBudget} :
                a = MakeArgs(sz, m, {}, s, <<0, 0>>, b)
        \* from a corner on maps with two marked tiles
        \/ \E m \in TwoMarks(sz[1], sz[2], {"blocker", "zoc"}),
              se \in CornerPairs(sz[1], sz[2]) :
                a = MakeArgs(sz, m, {}, se[1], <<0, 0>>, BigBudget)
        \* a ring of ZoC tiles around the start, with at most one marked tile
        \/ \E m \in UpToOneMark(sz[1], sz[2], {"rough", "lava", "blocker", "open"}),
              s \in AllCoords(sz[1], sz[2]), b \in {MaxBudget, BigBudget} :
                a = MakeArgs(sz, m, Around(sz[1], sz[2], s), s, <<0, 0>>, b)
        \* every start with a budget of one step, at most two blocked tiles
        \/ \E m \in UpToOneMark(sz[1], sz[2], {"blocker"}) \cup
                      {(i :> "blocker") @@ (sz[1] * sz[2] - 1 - i :> "blocker") :
                          i \in Tiles(sz[1], sz[2])},
              s \in AllCoords(sz[1], sz[2]) :
                a = MakeArgs(sz, m, {}, s, <<0, 0>>, 1)
        \* every tile ZoC, but for at most one marked tile
        \/ \E m \in UpToOneMark(sz[1], sz[2], {"open", "blocker", "rough"}),
              s \in AllCoords(sz[1], sz[2]) :
                a = MakeArgs(sz, m, Tiles(sz[1], sz[2]), s, <<0, 0>>, MaxBudget)
        \* from a corner on uniform single-terrain maps, with at most one
        \* blocked tile, next to the start
        \/ \E t \in UniformIds, c \in UniformCosts,
              se \in CornerPairs(sz[1], sz[2]), b \in {1, MaxBudget} :
                \E m \in {NoMark} \cup
                          {i :> "blocker" : i \in Around(sz[1], sz[2], se[1])} :
                    a = UniformArgs(sz, t, c, m, se[1], <<0, 0>>, b)
        \* a start one step outside the grid
        \/ \E s \in Border(sz[1], sz[2]) :
                a = MakeArgs(sz, NoMark, {}, s, <<0, 0>>, MaxBudget)
        \* from a corner with a terrain object the parser refuses
        \/ \E se \in CornerPairs(sz[1], sz[2]) :
                a \in BadTerrain(MakeArgs(sz, NoMark, {}, se[1], <<0, 0>>, MaxBudget))

Idle ==
    /\ pc = "call"
    /\ g_scores = <<>> /\ parents = <<>> /\ open_set = create_heap(0) /\ found = 0
    /\ min_costs = <<>> /\ queue = create_heap(0) /\ in_closed_set = <<>>
    /\ stats = [expansions |-> <<>>, pushes |-> <<>>, dropped |-> 0, stale |-> 0]
    /\ buffers = NoBuffers
    /\ heap_log = [held |-> EmptyBag, popped |-> <<>>, dropped |-> 0]
    /\ result = PyNone

Init ==
    /\ \/ fn = "find_path" /\ PathInputs(args)
       \/ fn = "find_reachable" /\ ReachInputs(args)
    /\ Idle
    /\ heap = create_heap(0)

(* ------------------------------ the actions ---------------------------- *)
\* c_find_path up to the first test of the while loop
PathBegin ==
    /\ pc = "call" /\ fn = "find_path"
    /\ IF parse_common_args(args) = 0
       THEN /\ pc' = "error" /\ result' = PyNull
            /\ buffers' = Release(Acquire(buffers, parse_mallocs(args)),
                                  parse_frees(args))
            /\ UNCHANGED <<g_scores, parents, in_closed_set, open_set, found, stats>>
       ELSE /\ LET s == path_begin(args)
               IN /\ g_scores' = s.g_scores /\ parents' = s.parents
                  /\ in_closed_set' = s.in_closed_set /\ open_set' = s.open_set
                  /\ found' = s.found /\ stats' = s.stats
            /\ buffers' = Acquire(Release(Acquire(buffers, parse_mallocs(args)),
                                          parse_frees(args)),
                                  path_mallocs(args))
            /\ pc' = "path_loop"
            /\ UNCHANGED result
    /\ UNCHANGED <<fn, args, min_costs, queue, heap, heap_log>>

\* one iteration of the A* loop
PathStep ==
    /\ pc = "path_loop" /\ Len(open_set.nodes) > 0 /\ found = 0
    /\ LET s == path_iteration(args, PathState)
       IN /\ g_scores' = s.g_scores /\ parents' = s.parents
          /\ in_closed_set' = s.in_closed_set /\ open_set' = s.open_set
          /\ found' = s.found /\ stats' = s.stats
    /\ UNCHANGED <<fn, args, pc, min_costs, queue, buffers, result, heap, heap_log>>

\* the loop is left (goal popped or queue empty): build the result and return
PathFinish ==
    /\ pc = "path_loop" /\ (Len(open_set.nodes) = 0 \/ found = 1)
    /\ result' = path_result(args, PathState)
    /\ buffers' = Release(buffers, path_frees(args))
    /\ pc' = "done"
    /\ UNCHANGED <<fn, args, g_scores, parents, open_set, found,
                   min_costs, queue, in_closed_set, stats, heap, heap_log>>

\* c_find_reachable up to the first test of the while loop
ReachBegin ==
    /\ pc = "call" /\ fn = "find_reachable"
    /\ IF parse_common_args(args) = 0
       THEN /\ pc' = "error" /\ result' = PyNull
            /\ buffers' = Release(Acquire(buffers, parse_mallocs(args)),
                                  parse_frees(args))
            /\ UNCHANGED <<min_costs, in_closed_set, queue, stats>>
       ELSE /\ LET s == reach_begin(args)
               IN /\ min_costs' = s.min_costs /\ in_closed_set' = s.in_closed_set
                  /\ queue' = s.queue /\ stats' = s.stats
            /\ buffers' = Acquire(Release(Acquire(buffers, parse_mallocs(args)),
                                          parse_frees(args)),
                                  reach_mallocs(args))
            /\ pc' = "reach_loop"
            /\ UNCHANGED result
    /\ UNCHANGED <<fn, args, g_scores, parents, open_set, found, heap, heap_log>>

\* one iteration of the Dijkstra loop
ReachStep ==
    /\ pc = "reach_loop" /\ Len(queue.nodes) > 0
    /\ LET s == reach_iteration(args, ReachState)
       IN /\ min_costs' = s.min_costs /\ in_closed_set' = s.in_closed_set
          /\ queue' = s.queue /\ stats' = s.stats
    /\ UNCHANGED <<fn, args, pc, g_scores, parents, open_set, found, buffers, result,
                   heap, heap_log>>

\* the queue is empty: build the dictionary and return
ReachFinish ==
    /\ pc = "reach_loop" /\ Len(queue.nodes) = 0
    /\ result' = reach_result(args, ReachState)
    /\ buffers' = Release(buffers, reach_frees(args))
    /\ pc' = "done"
    /\ UNCHANGED <<fn, args, g_scores, parents, open_set, found,
                   min_costs, queue, in_closed_set, stats, heap, heap_log>>

Next ==
    \/ PathBegin \/ PathStep \/ PathFinish
    \/ ReachBegin \/ ReachStep \/ ReachFinish

Spec == Init /\ [][Next]_vars

\* The loops run to their end: a call that can take a step takes one. This is
\* weak fairness of Next, []<>~ENABLED <<Next>>_vars \/ []<><<Next>>_vars,
\* with the enabling condition written out: PathBegin and ReachBegin are
\* enabled at "call", and in a loop either the step or the finish is, so
\* that a step is enabled exactly until the call has returned or raised.
FairSpec == Spec /\ ([]<>(pc \in {"done", "error"}) \/ []<><<Next>>_vars)

(* --------------------------- the heap on its own ----------------------- *)
\* heap_push and heap_pop called in any order on a heap of capacity
\* args.capacity. heap_log.held is the bag of entries pushed and not yet
\* popped, heap_log.popped the last call if it was a pop (the entry it
\* returned, the bag held before it), heap_log.dropped the number of pushes
\* that found the heap at capacity.
HeapInit ==
    /\ fn = "heap"
    /\ \E capacity \in 1..MaxHeapCapacity : args = [capacity |-> capacity]
    /\ Idle
    /\ heap = create_heap(args.capacity)

HeapPush ==
    /\ fn = "heap" /\ heap_log.dropped = 0
    /\ \E x \in 0..1, priority \in 0..MaxPriority :
          /\ heap' = heap_push(heap, x, 0, priority)
          /\ heap_log' = [held |-> heap_log.held (+) SetToBag({Node(x, 0, priority)}),
                          popped |-> <<>>,
                          dropped |-> IF Len(heap.nodes) >= heap.capacity THEN 1 ELSE 0]
    /\ UNCHANGED <<fn, args, pc, g_scores, parents, open_set, found,
                   min_costs, queue, in_closed_set, stats, buffers, result>>

HeapPop ==
    /\ fn = "heap"
    /\ LET r == heap_pop(heap)
       IN /\ heap' = r.heap
          /\ heap_log' = [heap_log EXCEPT
                            !.held = @ (-) SetToBag({r.root}),
                            !.popped = <<[node |-> r.root, before |-> heap_log.held]>>]
    /\ UNCHANGED <<fn, args, pc, g_scores, parents, open_set, found,
                   min_costs, queue, in_closed_set, stats, buffers, result>>

HeapNext == HeapPush \/ HeapPop

HeapSpec == HeapInit /\ [][HeapNext]_vars

(* ============================ the claims ============================== *)
(* The reference notions below are written from the statements being      *)
(* checked, not from the search code.                                      *)

StartInGrid == InGrid(args.width, args.height, <<args.start_x, args.start_y>>)
GoalInGrid == InGrid(args.width, args.height, <<args.end_x, args.end_y>>)
PathDone == fn = "find_path" /\ pc = "done"
ReachDone == fn = "find_reachable" /\ pc = "done"

\* the effective cost of tile i: table lookup, default 1, clamped to at least 1
EffectiveCost(a, i) ==
    LET id == a.terrain_grid[i]
        raw == IF id >= 0 /\ id < NUM_TERRAIN_IDS /\ id \in DOMAIN a.cost_map
               THEN a.cost_map[id] ELSE 1
    IN IF raw < 1 THEN 1 ELSE raw

\* the k-th of the six row-parity hex neighbours of coordinate p
Neighbour(p, k) == LET d == dirs(p[2])[k] IN <<p[1] + d[1], p[2] + d[2]>>
HexNeighbours(p) == {Neighbour(p, k) : k \in 1..6}

\* tile n may be entered: not in the blocked set, finite cost
Enterable(a, n) ==
    /\ Coord(a.width, n) \notin a.blockers
    /\ EffectiveCost(a, n) < INFINITY

\* a walk may step from coordinate c to its neighbour q: q is in the grid and
\* enterable; with the ZoC rule a step from a ZoC tile to a non-ZoC tile is
\* no step
WalkStep(a, zocRule, c, q) ==
    /\ InGrid(a.width, a.height, q)
    /\ Enterable(a, Index(a.width, q))
    /\ zocRule => ~(Index(a.width, c) \in a.zoc_map /\ Index(a.width, q) \notin a.zoc_map)

WithinBudget(a, c) == a.max_cost < 0 \/ c <= a.max_cost

\* d is a tuple: d[i + 1] is the least cost found so far of a walk from the
\* start to tile i that stays within the budget (INFINITY: none found).
\* RelaxFrom extends the walks that end in tile t by one step in each of the
\* directions k..6, RelaxAll does so for the tiles t.., Settle until nothing
\* improves.
RECURSIVE RelaxFrom(_, _, _, _, _)
RelaxFrom(a, zocRule, d, t, k) ==
    IF k > 6 THEN d
    ELSE LET c == Coord(a.width, t)
             q == Neighbour(c, k)
             n == Index(a.width, q)
             cost == d[t + 1] + EffectiveCost(a, n)
         IN IF WalkStep(a, zocRule, c, q) /\ WithinBudget(a, cost) /\ cost < d[n + 1]
            THEN RelaxFrom(a, zocRule, [d EXCEPT ![n + 1] = cost], t, k + 1)
            ELSE RelaxFrom(a, zocRule, d, t, k + 1)

RECURSIVE RelaxAll(_, _, _, _)
RelaxAll(a, zocRule, d, t) ==
    IF t >= map_size(a) THEN d
    ELSE RelaxAll(a, zocRule,
                  IF d[t + 1] < INFINITY THEN RelaxFrom(a, zocRule, d, t, 1) ELSE d,
                  t + 1)

RECURSIVE Settle(_, _, _)
Settle(a, zocRule, d) ==
    LET d2 == RelaxAll(a, zocRule, d, 0)
    IN IF d2 = d THEN d ELSE Settle(a, zocRule, d2)

\* the walk of no steps: cost 0 at the start, nothing found anywhere else
RECURSIVE StartOnly(_, _)
StartOnly(a, k) ==
    IF k = 0 THEN <<>>
    ELSE Append(StartOnly(a, k - 1), IF k - 1 = start_idx(a) THEN 0 ELSE INFINITY)

\* MinCost(a, zocRule)[i + 1]: the minimum total cost over all walks from
\* the start to tile i whose accumulated cost never exceeds the budget
MinCost(a, zocRule) == Settle(a, zocRule, StartOnly(a, map_size(a)))

RECURSIVE PathCost(_, _)
PathCost(a, path) ==
    IF path = <<>> THEN 0
    ELSE EffectiveCost(a, Index(a.width, path[1])) + PathCost(a, Tail(path))

IsPath(r) == r.type = "list"

\* C1: whenever findPath returns a path (start and goal in the grid), the
\* sum of the clamped effective costs of its tiles is the minimum total cost
\* over all walks from start to goal that stay in bounds, never enter a
\* blocked or infinite-cost tile and never exceed the budget.
C1_PathCostIsMinimal ==
    (PathDone /\ StartInGrid /\ GoalInGrid /\ result.type # "NoneType") =>
        /\ IsPath(result)
        /\ PathCost(args, result.value) = MinCost(args, FALSE)[end_idx(args) + 1]

\* a returned path that costs more than the straight hex distance, under a budget
C1_Witness ==
    /\ PathDone /\ StartInGrid /\ GoalInGrid /\ IsPath(result)
    /\ args.max_cost = MaxBudget
    /\ Len(result.value) >= 3
    /\ PathCost(args, result.value) >
         hex_distance(offset_to_axial(args.start_x, args.start_y),
                      offset_to_axial(args.end_x, args.end_y))

\* C2: with no ZoC overlay and a budget no simple path exceeds, for the same
\* map and in-grid start, findPath(start, goal) returns a path exactly when
\* findReachable(start) contains goal, and the cost of that path is the cost
\* findReachable assigns to goal.
C2_PathAgreesWithReachable ==
    (ReachDone /\ StartInGrid /\ args.zoc_map = {} /\ args.max_cost = BigBudget) =>
        \A goal \in AllCoords(args.width, args.height) :
            LET path == c_find_path([args EXCEPT !.end_x = goal[1], !.end_y = goal[2]])
            IN /\ path.type # "undefined"
               /\ (path.type = "list") <=> (goal \in DOMAIN result.value)
               /\ (path.type = "list") =>
                      PathCost(args, path.value) = result.value[goal]

\* both outcomes on one map: a goal findReachable leaves out, and a goal it
\* reports at more than the hex distance
C2_Witness ==
    /\ ReachDone /\ StartInGrid /\ args.zoc_map = {} /\ args.max_cost = BigBudget
    /\ \E goal \in AllCoords(args.width, args.height) : goal \notin DOMAIN result.value
    /\ \E goal \in DOMAIN result.value :
          result.value[goal] > hex_distance(offset_to_axial(args.start_x, args.start_y),
                                      offset_to_axial(goal[1], goal[2]))

\* C3: for an in-grid start and a non-negative budget the mapping findReachable
\* returns holds exactly the tiles whose minimal cost from start is within the
\* budget, each with that minimal cost; the minimum is over walks through
\* in-grid, unblocked, finite-cost tiles that never step from ZoC to non-ZoC.
C3_ReachableIsExact ==
    (ReachDone /\ StartInGrid /\ args.max_cost >= 0) =>
        LET d == MinCost(args, TRUE)
            within == {i \in Tiles(args.width, args.height) : d[i + 1] <= args.max_cost}
        IN result = PyDict([p \in {Coord(args.width, i) : i \in within} |->
                               d[Index(args.width, p) + 1]])

\* a run where the budget leaves out a tile a walk reaches, the ZoC rule
\* leaves out another, and some tile is reported at a cost of 2 or more
C3_Witness ==
    /\ ReachDone /\ StartInGrid /\ args.max_cost = MaxBudget /\ args.zoc_map # {}
    /\ \E p \in DOMAIN result.value : result.value[p] >= 2
    /\ \E i \in Tiles(args.width, args.height) :
          /\ Coord(args.width, i) \notin DOMAIN result.value
          /\ MinCost([args EXCEPT !.max_cost = BigBudget], TRUE)[i + 1] < INFINITY
    /\ \E i \in Tiles(args.width, args.height) :
          /\ Coord(args.width, i) \notin DOMAIN result.value
          /\ MinCost(args, FALSE)[i + 1] <= args.max_cost

\* C4: every coordinate of a returned path (start and goal in the grid) is in
\* the grid, not blocked, and a row-parity hex neighbour of the coordinate
\* before it, the first one of start; the path does not contain start and its
\* last coordinate is goal.
C4_PathIsWellFormed ==
    (PathDone /\ StartInGrid /\ GoalInGrid /\ result.type # "NoneType") =>
        /\ IsPath(result)
        /\ \A k \in 1..Len(result.value) :
              /\ InGrid(args.width, args.height, result.value[k])
              /\ result.value[k] \notin args.blockers
              /\ result.value[k] \in
                    HexNeighbours(IF k = 1 THEN <<args.start_x, args.start_y>>
                                  ELSE result.value[k - 1])
              /\ result.value[k] # <<args.start_x, args.start_y>>
        /\ Len(result.value) > 0 =>
              result.value[Len(result.value)] = <<args.end_x, args.end_y>>

\* a path of three or more steps on a map with a blocker, through both row parities
C4_Witness ==
    /\ PathDone /\ StartInGrid /\ GoalInGrid /\ IsPath(result)
    /\ Len(result.value) >= 3 /\ args.blockers # {}
    /\ \E j, k \in 1..Len(result.value) :
          result.value[j][2] % 2 = 0 /\ result.value[k][2] % 2 = 1

\* the non-ZoC tiles that in-grid steps through non-ZoC tiles alone connect to S
RECURSIVE OpenRegion(_, _)
OpenRegion(a, S) ==
    LET more == {n \in Tiles(a.width, a.height) \ (a.zoc_map \cup S) :
                    \E c \in S : Coord(a.width, n) \in HexNeighbours(Coord(a.width, c))}
    IN IF more = {} THEN S ELSE OpenRegion(a, S \cup more)

\* C5: ZoC ring. With the start outside ZoC, an open (non-ZoC) tile T that ZoC
\* tiles separate from the start - every route to it enters a ZoC tile - is
\* not reported, even when the terrain costs to T fit the budget; each ZoC
\* tile next to the start that is unblocked and passable is reported at
\* exactly its own effective cost when that is within the budget.
C5_ZocRing ==
    (ReachDone /\ StartInGrid /\ args.max_cost >= 0 /\ start_idx(args) \notin args.zoc_map) =>
        /\ LET open == OpenRegion(args, {start_idx(args)})
           IN \A t \in Tiles(args.width, args.height) \ (args.zoc_map \cup open) :
                 Coord(args.width, t) \notin DOMAIN result.value
        /\ \A r \in Around(args.width, args.height, <<args.start_x, args.start_y>>) :
              (r \in args.zoc_map /\ Enterable(args, r)
                 /\ EffectiveCost(args, r) <= args.max_cost)
                  => /\ Coord(args.width, r) \in DOMAIN result.value
                     /\ result.value[Coord(args.width, r)] = EffectiveCost(args, r)

\* the scenario: every tile around the start is ZoC, an open tile beyond the
\* ring would fit the budget by terrain cost and is left out, and a ring tile
\* of rough terrain is reported
C5_Witness ==
    /\ ReachDone /\ StartInGrid /\ start_idx(args) \notin args.zoc_map
    /\ Around(args.width, args.height, <<args.start_x, args.start_y>>) \subseteq args.zoc_map
    /\ \E t \in Tiles(args.width, args.height) \ args.zoc_map :
          /\ t # start_idx(args)
          /\ MinCost(args, FALSE)[t + 1] <= args.max_cost
          /\ Coord(args.width, t) \notin DOMAIN result.value
    /\ \E r \in Around(args.width, args.height, <<args.start_x, args.start_y>>) :
          /\ Coord(args.width, r) \in DOMAIN result.value
          /\ result.value[Coord(args.width, r)] = RoughCost

\* C6: for an in-grid start and a non-negative budget findReachable reports the
\* start tile at cost 0 - also when the start is blocked, of infinite-cost
\* terrain or a ZoC tile - and the search never changes the start's cost.
C6_StartAtZero ==
    (fn = "find_reachable" /\ pc \in {"reach_loop", "done"} /\ StartInGrid
        /\ args.max_cost >= 0) =>
        /\ min_costs[start_idx(args)] = 0
        /\ pc = "done" =>
              /\ <<args.start_x, args.start_y>> \in DOMAIN result.value
              /\ result.value[<<args.start_x, args.start_y>>] = 0

\* a finished run from a blocked start that reports other tiles as well
C6_Witness ==
    /\ ReachDone /\ StartInGrid
    /\ <<args.start_x, args.start_y>> \in args.blockers
    /\ Cardinality(DOMAIN result.value) > 1

\* C7: when start equals goal (in the grid) findPath returns the empty path,
\* not 'no path', whatever the terrain, blocked set and budget.
C7_StartIsGoal ==
    (PathDone /\ StartInGrid
       /\ args.start_x = args.end_x /\ args.start_y = args.end_y) =>
        result = PyList(<<>>)

\* start = goal on a blocked start tile with budget 0
C7_Witness ==
    /\ PathDone /\ StartInGrid /\ result = PyList(<<>>)
    /\ args.start_x = args.end_x /\ args.start_y = args.end_y
    /\ <<args.start_x, args.start_y>> \in args.blockers
    /\ args.max_cost = 0

OnPath(p, path) == \E k \in 1..Len(path) : path[k] = p

\* C8 as stated: Example 2 - on the 3x3 uniform cost-1 grid from (0,0) to
\* (2,2), blocking (1,1) makes findPath return a path that avoids (1,1) and
\* costs strictly more than the path returned when nothing is blocked.
C8_DetourCostsMore ==
    (PathDone /\ args = Example2) =>
        /\ IsPath(result)
        /\ ~OnPath(<<1, 1>>, result.value)
        /\ PathCost(args, result.value) >
              PathCost(Example1, c_find_path(Example1).value)

\* C8 as amended: the path avoids (1,1) and costs exactly as much as the path
\* returned when nothing is blocked (3, the hex distance): a detour of the
\* same length exists.
C8_DetourCostsTheSame ==
    (PathDone /\ args = Example2) =>
        /\ IsPath(result)
        /\ ~OnPath(<<1, 1>>, result.value)
        /\ IsPath(c_find_path(Example1))
        /\ PathCost(args, result.value) =
              PathCost(Example1, c_find_path(Example1).value)
        /\ PathCost(args, result.value) =
              hex_distance(offset_to_axial(0, 0), offset_to_axial(2, 2))

\* Example 2 has run, and the unblocked path it is compared with does pass (1,1)
C8_Witness ==
    /\ PathDone /\ args = Example2 /\ IsPath(result)
    /\ Len(result.value) = 3
    /\ OnPath(<<1, 1>>, c_find_path(Example1).value)

\* C9: when the start coordinate lies outside the grid - also when its linear
\* index y*width+x falls inside [0, width*height) - findPath performs no
\* search (no tile is ever expanded) and reports 'no path'.
C9_OutsideStartNoPath ==
    (PathDone /\ ~StartInGrid) =>
        /\ result = PyNone
        /\ \A i \in Tiles(args.width, args.height) : in_closed_set[i] = 0

\* C10: for start and goal in the grid, start # goal, findPath reports
\* 'no path' exactly when no walk from start to goal exists through in-grid,
\* unblocked, finite-cost tiles whose accumulated cost stays within the budget.
C10_NoPathIffNoWalk ==
    (PathDone /\ StartInGrid /\ GoalInGrid
       /\ <<args.start_x, args.start_y>> # <<args.end_x, args.end_y>>) =>
        (result = PyNone <=> MinCost(args, FALSE)[end_idx(args) + 1] = INFINITY)

\* 'no path' because of the budget alone: without it a walk reaches the goal
C10_Witness ==
    /\ PathDone /\ StartInGrid /\ GoalInGrid /\ result = PyNone
    /\ args.max_cost = MaxBudget
    /\ MinCost([args EXCEPT !.max_cost = -1], FALSE)[end_idx(args) + 1] < INFINITY

\* the call is on a uniform single-terrain map whose cost table overrides the
\* cost of that terrain alone
UniformCall ==
    /\ Cardinality(DOMAIN args.cost_map) = 1
    /\ \A i \in Tiles(args.width, args.height) :
          args.terrain_grid[i] \in DOMAIN args.cost_map

\* the same call with the override replaced by 1
OverrideOne == [args EXCEPT !.cost_map = [id \in DOMAIN args.cost_map |-> 1]]

\* C11: cost clamp. On a uniform single-terrain grid whose terrain id is in
\* the supported range, a cost override of 0 or of a negative value gives the
\* same findPath result and the same findReachable mapping as an override of
\* 1, whatever the start, goal, blocked set and budget.
C11_CostClamp ==
    (pc = "done" /\ UniformCall /\ \A id \in DOMAIN args.cost_map : args.cost_map[id] <= 0) =>
        result = IF fn = "find_path" THEN c_find_path(OverrideOne)
                 ELSE c_find_reachable(OverrideOne)

\* a negative override on terrain id 99: the mapping holds a tile at cost 2 or
\* more, which an unclamped cost could not give
C11_Witness ==
    /\ ReachDone /\ UniformCall
    /\ DOMAIN args.cost_map = {NUM_TERRAIN_IDS - 1}
    /\ args.cost_map[NUM_TERRAIN_IDS - 1] < 0
    /\ \E p \in DOMAIN result.value : result.value[p] >= 2

\* every tile costs 1, nothing is blocked
UniformCostOne ==
    /\ args.blockers = {}
    /\ \A i \in Tiles(args.width, args.height) : EffectiveCost(args, i) = 1

\* C12: on uniform cost-1 terrain with no blocked tile and no budget, for
\* every start and goal in the grid the path findPath returns has as many
\* coordinates as hex_distance(offset_to_axial(start), offset_to_axial(goal));
\* Example 1 (3x3, (0,0) to (2,2)) is an instance.
C12_LengthIsHexDistance ==
    (PathDone /\ StartInGrid /\ GoalInGrid /\ UniformCostOne /\ args.max_cost < 0) =>
        /\ IsPath(result)
        /\ Len(result.value) =
              hex_distance(offset_to_axial(args.start_x, args.start_y),
                           offset_to_axial(args.end_x, args.end_y))

\* Example 1 itself has run and returned three coordinates
C12_Witness ==
    /\ PathDone /\ args = Example1 /\ UniformCostOne
    /\ IsPath(result) /\ Len(result.value) = 3

\* C13: with budget 1 on uniform cost-1 terrain and no ZoC overlay,
\* findReachable returns the start at cost 0 and every in-grid, unblocked
\* row-parity hex neighbour of the start at cost 1, and nothing else, for
\* every start in the grid.
C13_BudgetOne ==
    (ReachDone /\ StartInGrid /\ args.max_cost = 1 /\ args.zoc_map = {}
       /\ \A i \in Tiles(args.width, args.height) : EffectiveCost(args, i) = 1) =>
        LET start == <<args.start_x, args.start_y>>
            near == {q \in HexNeighbours(start) :
                        InGrid(args.width, args.height, q) /\ q \notin args.blockers}
        IN result = PyDict([p \in {start} \cup near |-> IF p = start THEN 0 ELSE 1])

\* a start with a blocked neighbour and at least two neighbours reported
C13_Witness ==
    /\ ReachDone /\ StartInGrid /\ args.max_cost = 1 /\ args.zoc_map = {}
    /\ \A i \in Tiles(args.width, args.height) : EffectiveCost(args, i) = 1
    /\ HexNeighbours(<<args.start_x, args.start_y>>) \cap args.blockers # {}
    /\ Cardinality(DOMAIN result.value) >= 3
    /\ \E p \in DOMAIN result.value : result.value[p] = 1

\* the ZoC rule as stated: the move from tile c to tile n is forbidden exactly
\* when c is marked ZoC and n is not
ZocForbids(a, c, n) == c \in a.zoc_map /\ n \notin a.zoc_map

\* the in-grid tiles next to tile c, as indices
NextTo(a, c) == Around(a.width, a.height, Coord(a.width, c))

\* the least cost of a chain from the start through ZoC tiles alone
ZocChainCost(a) ==
    MinCost([a EXCEPT !.blockers =
                @ \cup {Coord(a.width, i) : i \in Tiles(a.width, a.height) \ a.zoc_map}],
            FALSE)

RecordedCost == IF fn = "find_path" THEN g_scores ELSE min_costs

\* C15: in both searches, at every step: a closed flag is never cleared, a
\* closed tile has been expanded exactly once (and an open one never), the
\* recorded cost of a closed tile does not change any more, and the recorded
\* cost of every tile only decreases, starting from infinity (0 at the start).
C15_ClosedIsFinal ==
    [][pc' # "error" => \A i \in Tiles(args.width, args.height) :
          IF pc = "call"
          THEN /\ in_closed_set'[i] = 0
               /\ stats'.expansions[i] = 0
               /\ RecordedCost'[i] = IF i = start_idx(args) THEN 0 ELSE INFINITY
          ELSE /\ in_closed_set[i] = 1 =>
                     /\ in_closed_set'[i] = 1
                     /\ RecordedCost'[i] = RecordedCost[i]
                     /\ stats'.expansions[i] = 1
               /\ RecordedCost'[i] <= RecordedCost[i]
               /\ stats'.expansions[i] = in_closed_set'[i]]_vars

\* a findPath run in which a tile's cost came down from a finite value (the
\* tile was pushed twice), a stale entry was popped and discarded, and a tile
\* two or more steps away has been closed
C15_Witness ==
    /\ fn = "find_path" /\ pc = "path_loop"
    /\ stats.stale >= 1
    /\ \E i \in Tiles(args.width, args.height) : stats.pushes[i] >= 2
    /\ \E i \in Tiles(args.width, args.height) :
          in_closed_set[i] = 1 /\ g_scores[i] >= 2

\* the entries a node array holds, as a bag
RECURSIVE Entries(_)
Entries(nodes) ==
    IF nodes = <<>> THEN EmptyBag
    ELSE SetToBag({nodes[1]}) (+) Entries(Tail(nodes))

\* C16: after any sequence of heap_push and heap_pop calls in which no push
\* found the heap at capacity: every node's priority is <= the priorities of
\* its children; the entries held are the entries pushed minus the entries
\* popped; and a heap_pop of a heap that held something returned an entry it
\* held, of the least priority held, and removed that one entry and no other.
C16_HeapProperty ==
    (fn = "heap" /\ heap_log.dropped = 0) =>
        /\ \A i \in 1..(Len(heap.nodes) - 1) :
              heap.nodes[((i - 1) \div 2) + 1].priority <= heap.nodes[i + 1].priority
        /\ Entries(heap.nodes) = heap_log.held
        /\ \A k \in 1..Len(heap_log.popped) :
              LET pop == heap_log.popped[k]
              IN pop.before # EmptyBag =>
                    /\ BagIn(pop.node, pop.before)
                    /\ \A e \in BagToSet(pop.before) : pop.node.priority <= e.priority
                    /\ Entries(heap.nodes) (+) SetToBag({pop.node}) = pop.before

\* a pop of a full heap of four entries whose least priority was held twice:
\* three entries remain
C16_Witness ==
    /\ fn = "heap" /\ heap_log.dropped = 0
    /\ Len(heap_log.popped) = 1
    /\ BagCardinality(heap_log.popped[1].before) = 4
    /\ \E e \in BagToSet(heap_log.popped[1].before) :
          /\ e # heap_log.popped[1].node
          /\ e.priority = heap_log.popped[1].node.priority
    /\ Len(heap.nodes) = 3

\* f[0] + ... + f[k - 1]
RECURSIVE SumTo(_, _)
SumTo(f, k) == IF k = 0 THEN 0 ELSE f[k - 1] + SumTo(f, k - 1)

\* the queue of the running search
SearchQueue == IF fn = "find_path" THEN open_set ELSE queue
\* how many loop iterations have run: each pops one entry, and then expands
\* the tile, discards the entry, or (findPath) finds the goal
Iterations ==
    SumTo(stats.expansions, map_size(args)) + stats.stale
        + (IF fn = "find_path" THEN found ELSE 0)

\* C17: both searches terminate. Every call returns; findPath leaves its loop
\* with the goal popped or the queue empty, findReachable with the queue
\* empty; at most width*height tiles are expanded; the pushes are finite (at
\* most one per tile and neighbour, and one for the start); and every
\* iteration consumes one pushed entry.
C17_Terminates ==
    /\ <>(pc \in {"done", "error"})
    /\ [](pc \in {"path_loop", "reach_loop", "done"} =>
            /\ SumTo(stats.expansions, map_size(args)) <= map_size(args)
            /\ SumTo(stats.pushes, map_size(args)) <= 6 * map_size(args) + 1
            /\ Iterations + Len(SearchQueue.nodes)
                  = SumTo(stats.pushes, map_size(args)) - stats.dropped)
    /\ [](PathDone => (found = 1 \/ Len(open_set.nodes) = 0))
    /\ [](ReachDone => Len(queue.nodes) = 0)

\* a findPath run that ended on the empty queue after expanding tiles and
\* discarding a stale entry, and so without a path
C17_Witness ==
    /\ PathDone /\ found = 0 /\ Len(open_set.nodes) = 0
    /\ SumTo(stats.expansions, map_size(args)) >= 3
    /\ stats.stale >= 1
    /\ result = PyNone

\* the buffers a call holds between the parser and the return
Held ==
    {"grid", "blocked", "in_closed_set"}
        \cup (IF fn = "find_path" THEN {"g_scores", "parents"}
              ELSE {"min_costs", "zoc_map"})
        \cup (IF start_idx(args) >= 0 /\ start_idx(args) < map_size(args)
              THEN {"heap", "heap_nodes"} ELSE {})

\* C18: every buffer a call acquires is released exactly once before the call
\* returns, on every exit path. While the search runs the call holds the
\* terrain copy, the blocked mask, its arrays and (for a start index in
\* range) the heap and its node array, each acquired once and not released;
\* when it has returned - with a path, without one, for a start index out of
\* range - each of these has been released once; when the parser refused the
\* terrain, the terrain copy was acquired and released once and nothing else
\* was acquired. No buffer is ever released more often than acquired.
C18_BuffersReleasedOnce ==
    /\ \A b \in Buffers : buffers[b].released <= buffers[b].acquired
    /\ pc \in {"path_loop", "reach_loop"} =>
          \A b \in Buffers :
              buffers[b] = [acquired |-> IF b \in Held THEN 1 ELSE 0, released |-> 0]
    /\ pc = "done" =>
          \A b \in Buffers :
              buffers[b] = IF b \in Held THEN [acquired |-> 1, released |-> 1]
                           ELSE [acquired |-> 0, released |-> 0]
    /\ pc = "error" =>
          \A b \in Buffers :
              buffers[b] = IF b = "grid" THEN [acquired |-> 1, released |-> 1]
                           ELSE [acquired |-> 0, released |-> 0]

\* a findReachable call that raised on a terrain sequence one item short,
\* after reading the items it had
C18_Witness ==
    /\ fn = "find_reachable" /\ pc = "error" /\ result = PyNull
    /\ PySequence_Check(args)
    /\ DOMAIN args.terrain_grid = 0..(map_size(args) - 2)
    /\ buffers["grid"].released = 1

\* C19: in findPath with start and goal in the grid, every heap_push finds the
\* open set below its capacity of width*height: no push is dropped, at any
\* step of the run, and the open set holds what was pushed and not yet popped.
C19_NoPushDropped ==
    (fn = "find_path" /\ pc \in {"path_loop", "done"} /\ StartInGrid /\ GoalInGrid) =>
        /\ stats.dropped = 0
        /\ open_set.capacity = map_size(args)
        /\ Len(open_set.nodes) <= open_set.capacity
        /\ Len(open_set.nodes) + Iterations = SumTo(stats.pushes, map_size(args))

\* a run between two tiles of the grid that has pushed more entries than the
\* open set can hold at once, one tile twice, with the goal not yet popped
C19_Witness ==
    /\ fn = "find_path" /\ pc = "path_loop" /\ StartInGrid /\ GoalInGrid
    /\ found = 0
    /\ SumTo(stats.pushes, map_size(args)) > open_set.capacity
    /\ \E i \in Tiles(args.width, args.height) : stats.pushes[i] >= 2
    /\ stats.dropped = 0

\* what C20 says of the pushes and pops of a findReachable run: each tile is
\* pushed at most once, a tile has a recorded cost exactly when it was pushed,
\* no popped entry is discarded and no push is dropped
PushedOnce ==
    /\ \A i \in Tiles(args.width, args.height) :
          /\ stats.pushes[i] <= 1
          /\ stats.pushes[i] = 1 <=> min_costs[i] < INFINITY
    /\ stats.stale = 0
    /\ stats.dropped = 0

\* C20 as stated: in findReachable with the start in the grid, each tile is
\* pushed at most once, the stale test never discards an entry, and the queue
\* size never reaches its capacity of width*height.
C20_QueueBelowCapacity ==
    (fn = "find_reachable" /\ pc \in {"reach_loop", "done"} /\ StartInGrid) =>
        /\ PushedOnce
        /\ queue.capacity = map_size(args)
        /\ Len(queue.nodes) < queue.capacity

\* C20, amended: as above, but the queue size stays below the capacity only
\* on grids of more than one tile. On the 1x1 grid the push of the start
\* fills the queue of capacity 1; nothing is pushed after it.
C20_PushedOnce ==
    (fn = "find_reachable" /\ pc \in {"reach_loop", "done"} /\ StartInGrid) =>
        /\ PushedOnce
        /\ queue.capacity = map_size(args)
        /\ Len(queue.nodes) <= queue.capacity
        /\ Len(queue.nodes) = queue.capacity =>
              /\ map_size(args) = 1
              /\ SumTo(stats.expansions, map_size(args)) = 0
        /\ Len(queue.nodes) + Iterations = SumTo(stats.pushes, map_size(args))

\* a finished run that pushed every tile of a nine-tile map once, at costs
\* that differ from the number of steps
C20_Witness ==
    /\ ReachDone /\ StartInGrid /\ map_size(args) = 9
    /\ \A i \in Tiles(args.width, args.height) : stats.pushes[i] = 1
    /\ \E i \in Tiles(args.width, args.height) : min_costs[i] > RoughCost
    /\ stats.stale = 0

====
